---- MODULE Spec2Model ----
(***************************************************************************)
(* A model of laim (src/src/lib.rs): the grid configuration, the set of    *)
(* active cells, the current run, the history of finished runs and its     *)
(* text form kept in local storage.                                        *)
(*                                                                         *)
(* Strings are sequences of one-character strings.  An Option<T> is NONE   *)
(* or the value.  A FxHashMap of buckets is a function whose domain is the *)
(* set of keys that hold at least one record: every read in the source     *)
(* goes through entry().or_default(), get().unwrap_or(EMPTY) or values(),  *)
(* so an absent key and a key with an empty deque behave alike.            *)
(***************************************************************************)
EXTENDS Integers, Sequences, FiniteSets, TLC

VARIABLES
    mounted,         \* Root and Game have been constructed
    panicked,        \* a handler has panicked (the wasm instance trapped)
    rows,            \* signal rows
    columns,         \* signal columns
    active,          \* signal active (as configured, not clamped)
    current,         \* signal current: the set of active positions
    history,         \* signal history: key -> sequence of records
    current_record,  \* signal current_record
    start,           \* signal start (an Instant)
    hovered,         \* signal hovered: NoCell or <<row, col>>
    clock,           \* the last value Instant::now() returned
    local_storage,   \* the items rows, columns, active, history (NONE or text)
    query,           \* the query parameters r, c, a (NONE or text)
    boot_history,    \* the text of the history item as read when mounting
    overflow_checks, \* the build panics on integer overflow (else it wraps)
    sampling         \* the sampling loop a handler is in, and its local new

vars == <<mounted, panicked, rows, columns, active, current, history,
          current_record, start, hovered, clock, local_storage, query,
          boot_history, overflow_checks, sampling>>

(***************************************************************************)
(* Bounds of the model.                                                    *)
(***************************************************************************)
MaxRows == 3
MaxColumns == 2
MaxActive == 4
MaxScore == 2
MaxClock == 1
MaxRecords == 1
MaxRunRecords == 2
MaxBuckets == 2

\* None of an Option<String>: no text, since a text holds single characters.
NONE == <<"none">>

\* None of an Option<Position>.
NoCell == <<>>

\* No sampling loop is running.
Idle == [loop |-> "none", new |-> <<0, 0>>]

TAB == "\t"
NL == "\n"
COMMA == ","
PLUS == "+"

Min(a, b) == IF a < b THEN a ELSE b

(***************************************************************************)
(* Text: decimal formatting and parsing, and the str methods load uses.    *)
(***************************************************************************)
Digits == <<"0", "1", "2", "3", "4", "5", "6", "7", "8", "9">>

IsDigit(ch) == \E i \in 1..10 : Digits[i] = ch

DigitValue(ch) == (CHOOSE i \in 1..10 : Digits[i] = ch) - 1

RECURSIVE to_string(_)
\* u32::to_string / "{}": the decimal digits, most significant first.
to_string(n) ==
    IF n < 10 THEN <<Digits[n + 1]>>
    ELSE to_string(n \div 10) \o <<Digits[(n % 10) + 1]>>

RECURSIVE DigitsValue(_)
DigitsValue(s) ==
    IF s = <<>> THEN 0
    ELSE 10 * DigitsValue(SubSeq(s, 1, Len(s) - 1)) + DigitValue(s[Len(s)])

\* str::parse::<u32>() (and ::<u128>()): an optional '+', then one or more
\* decimal digits and nothing else.  -1 stands for Err.  Values beyond the
\* type's range need ten digits or more and lie outside the texts modelled.
parse(s) ==
    LET body == IF s # <<>> /\ s[1] = PLUS THEN Tail(s) ELSE s
    IN  IF body # <<>> /\ \A i \in 1..Len(body) : IsDigit(body[i])
        THEN DigitsValue(body)
        ELSE -1

starts_with(s, p) ==
    /\ Len(s) >= Len(p)
    /\ SubSeq(s, 1, Len(p)) = p

RECURSIVE trim_start_matches(_, _)
\* str::trim_start_matches: the prefix is removed as often as it matches.
trim_start_matches(s, p) ==
    IF starts_with(s, p)
    THEN trim_start_matches(SubSeq(s, Len(p) + 1, Len(s)), p)
    ELSE s

HasChar(s, ch) == \E i \in 1..Len(s) : s[i] = ch

FirstIndex(s, ch) == CHOOSE i \in 1..Len(s) : s[i] = ch /\ \A j \in 1..(i - 1) : s[j] # ch

\* str::split_once(ch): defined where HasChar(s, ch).
split_head(s, ch) == SubSeq(s, 1, FirstIndex(s, ch) - 1)
split_rest(s, ch) == SubSeq(s, FirstIndex(s, ch) + 1, Len(s))

(***************************************************************************)
(* Records and the history map.                                            *)
(***************************************************************************)
Record(position, score, millis, r, c, a) ==
    [position |-> position, score |-> score, millis |-> millis,
     rows |-> r, columns |-> c, active |-> a]

EmptyMap == [k \in {} |-> <<>>]

\* history.get(&key).unwrap_or(EMPTY) / entry(key).or_default()
Bucket(h, key) == IF key \in DOMAIN h THEN h[key] ELSE <<>>

\* The map h with the bucket of key set to deque.
WithBucket(h, key, deque) ==
    IF deque = <<>>
    THEN [k \in DOMAIN h \ {key} |-> h[k]]
    ELSE [k \in DOMAIN h \cup {key} |-> IF k = key THEN deque ELSE h[k]]

\* entry(key).or_insert_with(VecDeque::new).push_back(record)
push_back(h, key, record) == WithBucket(h, key, Append(Bucket(h, key), record))

\* The record put behind the others instead of in front of them.
push_front_at_back(h, key, record) == push_back(h, key, record)

\* entry(key).or_insert_with(VecDeque::new).push_front(record)
push_front(h, key, record) == WithBucket(h, key, <<record>> \o Bucket(h, key))

RECURSIVE TotalRecords(_)
TotalRecords(h) ==
    IF DOMAIN h = {} THEN 0
    ELSE LET k == CHOOSE k \in DOMAIN h : TRUE
         IN  Len(h[k]) + TotalRecords([j \in DOMAIN h \ {k} |-> h[j]])

(***************************************************************************)
(* Saving the history: the Effect of Root.                                 *)
(***************************************************************************)
RECURSIVE history_vals(_)
\* history.values().for_each(|v| history_vals.extend(v)): the buckets one
\* after the other, in the order the map iterates them.
history_vals(h) ==
    IF DOMAIN h = {} THEN <<>>
    ELSE LET k == CHOOSE k \in DOMAIN h : TRUE
         IN  h[k] \o history_vals([j \in DOMAIN h \ {k} |-> h[j]])

RECURSIVE InsertByKey(_, _, _)
\* x placed behind every element whose field is not greater: stable.
InsertByKey(sorted, x, f) ==
    IF sorted = <<>> THEN <<x>>
    ELSE IF Head(sorted)[f] <= x[f]
         THEN <<Head(sorted)>> \o InsertByKey(Tail(sorted), x, f)
         ELSE <<x>> \o sorted

RECURSIVE sort_by_key(_, _)
\* Vec::sort_by_key, a stable sort.
sort_by_key(vals, f) ==
    IF vals = <<>> THEN <<>>
    ELSE InsertByKey(sort_by_key(SubSeq(vals, 1, Len(vals) - 1), f),
                     vals[Len(vals)], f)

RECURSIVE write_records(_, _, _, _)
\* The loop over history_vals.  last_rows, last_columns and last_active are
\* Option<NonZeroU32>: 0 is None, and NonZeroU32::new(0) is None.
write_records(vals, last_rows, last_columns, last_active) ==
    IF vals = <<>> THEN <<>>
    ELSE
        LET val == Head(vals)
            new_rows == last_rows = 0 \/ last_rows # val.rows
            last_columns1 == IF new_rows THEN 0 ELSE last_columns
            last_active1 == IF new_rows THEN 0 ELSE last_active
            new_columns == last_columns1 = 0 \/ last_columns1 # val.columns
            last_active2 == IF new_columns THEN 0 ELSE last_active1
            new_active == last_active2 = 0 \/ last_active2 # val.active
        IN  (IF new_rows
             THEN <<TAB, TAB, TAB>> \o to_string(val.rows) \o <<NL>> ELSE <<>>)
            \o (IF new_columns
                THEN <<TAB, TAB>> \o to_string(val.columns) \o <<NL>> ELSE <<>>)
            \o (IF new_active
                THEN <<TAB>> \o to_string(val.active) \o <<NL>> ELSE <<>>)
            \o to_string(val.position) \o <<COMMA>> \o to_string(val.score)
            \o <<COMMA>> \o to_string(val.millis) \o <<NL>>
            \o write_records(Tail(vals), val.rows, val.columns, val.active)

\* The text the Effect stores under "history".
save(h) ==
    LET sorted == sort_by_key(sort_by_key(sort_by_key(history_vals(h),
                      "active"), "columns"), "rows")
    IN  <<"1", NL>> \o write_records(sorted, 0, 0, 0)

(***************************************************************************)
(* Loading the history: the four nested while loops of Root.  level is the *)
(* loop whose condition is tested next: 0 the rows loop, 1 the columns     *)
(* loop, 2 the active loop, 3 the record loop.                             *)
(***************************************************************************)
\* The map built so far handed back where a line does not parse.
on_error_keep(m) == m

\* return FxHashMap::default(): what load answers where a line does not
\* parse, whatever the map m built so far holds.
on_error(m) == EmptyMap

RECURSIVE load_loop(_, _, _, _, _, _)
load_loop(level, s, m, r, c, a) ==
    CASE level = 0 ->
            IF starts_with(s, <<TAB, TAB, TAB>>)
            THEN IF ~HasChar(s, NL) THEN on_error(m)
                 ELSE LET n == parse(trim_start_matches(split_head(s, NL),
                                                        <<TAB, TAB, TAB>>))
                      IN  IF n < 0 THEN on_error(m)
                          ELSE load_loop(1, split_rest(s, NL), m, n, c, a)
            ELSE m
      [] level = 1 ->
            IF starts_with(s, <<TAB, TAB>>)
            THEN IF ~HasChar(s, NL) THEN on_error(m)
                 ELSE LET n == parse(trim_start_matches(split_head(s, NL),
                                                        <<TAB, TAB>>))
                      IN  IF n < 0 THEN on_error(m)
                          ELSE load_loop(2, split_rest(s, NL), m, r, n, a)
            ELSE load_loop(0, s, m, r, c, a)
      [] level = 2 ->
            IF starts_with(s, <<TAB>>)
            THEN IF ~HasChar(s, NL) THEN on_error(m)
                 ELSE LET n == parse(trim_start_matches(split_head(s, NL),
                                                        <<TAB>>))
                      IN  IF n < 0 THEN on_error(m)
                          ELSE load_loop(3, split_rest(s, NL), m, r, c, n)
            ELSE load_loop(1, s, m, r, c, a)
      [] OTHER ->
            IF ~starts_with(s, <<TAB>>)
            THEN IF ~HasChar(s, NL) THEN on_error(m)
                 ELSE
                    LET record == split_head(s, NL)
                        rem == split_rest(s, NL)
                    IN  IF ~HasChar(record, COMMA) THEN on_error(m)
                        ELSE
                          LET pos == split_head(record, COMMA)
                              score_millis == split_rest(record, COMMA)
                          IN  IF ~HasChar(score_millis, COMMA) THEN on_error(m)
                              ELSE
                                LET score == split_head(score_millis, COMMA)
                                    millis == split_rest(score_millis, COMMA)
                                IN  IF \/ parse(pos) < 0
                                       \/ parse(score) < 0
                                       \/ parse(millis) < 0
                                    THEN on_error(m)
                                    ELSE
                                      LET m1 == push_back(m, <<r, c, a>>,
                                                  Record(parse(pos), parse(score),
                                                         parse(millis), r, c, a))
                                      IN  IF rem = <<>> THEN m1
                                          ELSE load_loop(3, rem, m1, r, c, a)
            ELSE load_loop(2, s, m, r, c, a)

\* The closure mapped over the stored text.
load_text(s) ==
    IF ~HasChar(s, NL) THEN EmptyMap
    ELSE IF split_head(s, NL) = <<"1">>
         THEN load_loop(0, split_rest(s, NL), EmptyMap, 0, 0, 0)
         ELSE EmptyMap

\* local_storage.get_item("history") ... .unwrap_or_else(FxHashMap::default)
load(item) == IF item = NONE THEN EmptyMap ELSE load_text(item)

(***************************************************************************)
(* The grid and the active set.                                            *)
(***************************************************************************)
DefaultRows == 3
DefaultColumns == 3
DefaultActive == 2

Grid(r, c) == (0..(r - 1)) \X (0..(c - 1))

\* The configured number taken as it is.
clamp_active_unclamped(a, r, c) == a

\* The configured number limited to the number of cells.
clamp_active_to_cells(a, r, c) == IF r * c >= 1 THEN Min(a, r * c) ELSE a

\* active.min(rows * columns - 1) on u32.  With a product of 0 the
\* subtraction overflows: it panics under overflow checks and wraps to
\* u32::MAX without them, where the minimum is a itself.
clamp_active(a, r, c) == IF r * c >= 1 THEN Min(a, r * c - 1) ELSE a

\* rows * columns - 1 overflows.
sub_overflows(r, c) == r * c < 1

\* The sets the rejection sampling loop can end with: it inserts random
\* positions of the grid, skipping those present, until n are held.
Samples(r, c, n) == {S \in SUBSET Grid(r, c) : Cardinality(S) = n}

\* The sampling of n positions panics: the subtraction overflows under
\* overflow checks, or random_range is given an empty range.
sample_panics(a, r, c) ==
    \/ sub_overflows(r, c) /\ overflow_checks
    \/ clamp_active(a, r, c) > 0 /\ (r = 0 \/ c = 0)

\* The Memo active of Game.
active_memo == clamp_active(active, rows, columns)

\* The key game_over stores under.
game_over_key == <<rows, columns, active_memo>>

\* The key best_record, GameHistory and Clear History use.
config_key == <<rows, columns, active>>

score == current_record.score

(***************************************************************************)
(* best_record: the maximum of the current record and the bucket's records *)
(* under max_by, which keeps the last of several maxima.                   *)
(***************************************************************************)
\* The comparator with the millis compared the other way round.
compare_slower_first(a, b) ==
    IF a.score # b.score
    THEN (IF a.score > b.score THEN 1 ELSE -1)
    ELSE (IF a.millis > b.millis THEN 1
          ELSE IF a.millis < b.millis THEN -1 ELSE 0)

\* The comparator: Greater (1) when a is the better record, Less (-1) when b
\* is, Equal (0).
compare(a, b) ==
    IF a.score # b.score
    THEN (IF a.score > b.score THEN 1 ELSE -1)
    ELSE (IF b.millis > a.millis THEN 1
          ELSE IF b.millis < a.millis THEN -1 ELSE 0)

RECURSIVE max_by(_, _)
\* Iterator::max_by folded from best over the rest: a later element replaces
\* best unless best compares Greater.
max_by(best, rest) ==
    IF rest = <<>> THEN best
    ELSE max_by(IF compare(best, Head(rest)) = 1 THEN best ELSE Head(rest),
                Tail(rest))

best_record == max_by(current_record, Bucket(history, config_key))

(***************************************************************************)
(* Mounting: Root reads the configuration and the history, Game samples    *)
(* the first active set, and the Effects write the query parameters and    *)
(* the history text back.                                                  *)
(***************************************************************************)
\* The stored item asked before the query parameter.
config_value_item_first(q, item, default) ==
    IF item # NONE /\ parse(item) >= 0 THEN parse(item)
    ELSE IF q # NONE /\ parse(q) >= 0 THEN parse(q)
    ELSE default

\* query_signal::<u32>(..).get_untracked().unwrap_or_else(|| get_item(..)
\* .and_then(|s| s.parse().ok()).unwrap_or(default)): the query parameter
\* is None where it is absent or does not parse.
config_value(q, item, default) ==
    IF q # NONE /\ parse(q) >= 0 THEN parse(q)
    ELSE IF item # NONE /\ parse(item) >= 0 THEN parse(item)
    ELSE default

Mount ==
    /\ ~mounted
    /\ ~panicked
    /\ LET r == config_value(query.r, local_storage.rows, DefaultRows)
           c == config_value(query.c, local_storage.columns, DefaultColumns)
           a == config_value(query.a, local_storage.active, DefaultActive)
           h == load(local_storage.history)
       IN  /\ rows' = r
           /\ columns' = c
           /\ active' = a
           /\ boot_history' = local_storage.history
           /\ history' = h
           /\ current_record' = Record(0, 0, 0, r, c, a)
           /\ start' = clock
           /\ hovered' = NoCell
           /\ IF sample_panics(a, r, c)
              THEN /\ panicked' = TRUE
                   /\ current' = {}
                   /\ UNCHANGED <<mounted, local_storage, query>>
              ELSE /\ panicked' = FALSE
                   /\ mounted' = TRUE
                   /\ current' \in Samples(r, c, clamp_active(a, r, c))
                   /\ local_storage' = [local_storage EXCEPT !.history = save(h)]
                   /\ query' = [r |-> to_string(r), c |-> to_string(c),
                                a |-> to_string(a)]
    /\ UNCHANGED <<clock, overflow_checks, sampling>>

(***************************************************************************)
(* The mouseover listener.  kind is "none" (the event has no target),      *)
(* "node" (a target that is no Element), "other" (an element without the   *)
(* class cell) or "cell": the cell of the rendered grid at position cell.  *)
(***************************************************************************)
Mouseover(kind, cell) ==
    /\ mounted
    /\ ~panicked
    /\ hovered' = CASE kind = "node" -> hovered
                    [] kind = "cell" -> cell
                    [] OTHER -> NoCell
    /\ UNCHANGED <<mounted, panicked, rows, columns, active, current, history,
                   current_record, start, clock, local_storage, query,
                   boot_history, overflow_checks, sampling>>

(***************************************************************************)
(* game_over, on_input and on_trigger.                                     *)
(***************************************************************************)
\* The score reset only where the run was not recorded.
reset_score_unless_recorded(record) ==
    IF record.score > 1 THEN record ELSE [record EXCEPT !.score = 0]

\* set_current_record.update(|record| record.score = 0)
reset_score(record) == [record EXCEPT !.score = 0]

\* game_over recording every run that scored.
game_over_recording_any ==
    /\ history' =
          IF score > 0
          THEN push_front(history, game_over_key,
                          Record(Len(Bucket(history, game_over_key)) + 1,
                                 score, current_record.millis,
                                 rows, columns, active_memo))
          ELSE history
    /\ current_record' = reset_score(current_record)
    /\ local_storage' = [local_storage EXCEPT !.history = save(history')]
    /\ UNCHANGED <<mounted, panicked, rows, columns, active, current, start,
                   hovered, clock, query, boot_history, overflow_checks,
                   sampling>>

\* game_over with the position counted over the whole history.
game_over_counting_all ==
    /\ history' =
          IF score > 1
          THEN push_front(history, game_over_key,
                          Record(TotalRecords(history) + 1,
                                 score, current_record.millis,
                                 rows, columns, active_memo))
          ELSE history
    /\ current_record' = reset_score(current_record)
    /\ local_storage' = [local_storage EXCEPT !.history = save(history')]
    /\ UNCHANGED <<mounted, panicked, rows, columns, active, current, start,
                   hovered, clock, query, boot_history, overflow_checks,
                   sampling>>

game_over ==
    /\ history' =
          IF score > 1
          THEN push_front(history, game_over_key,
                          Record(Len(Bucket(history, game_over_key)) + 1,
                                 score, current_record.millis,
                                 rows, columns, active_memo))
          ELSE history
    /\ current_record' = reset_score(current_record)
    /\ local_storage' = [local_storage EXCEPT !.history = save(history')]
    /\ UNCHANGED <<mounted, panicked, rows, columns, active, current, start,
                   hovered, clock, query, boot_history, overflow_checks,
                   sampling>>

\* The first position drawn accepted without a look at current.
replacement_found_at_once(positions, new) == TRUE

\* The replacement loop, while current.contains(&new), is left at new.
replacement_found(positions, new) == new \notin positions

\* The hit without current.remove(&(row, col)).
hit_keeps_cell(row, col, now, new) ==
    /\ score < MaxScore
    /\ new \in Grid(rows, columns)
    /\ replacement_found(current, new)
    /\ clock' = now
    /\ start' = IF score = 0 THEN now ELSE start
    /\ current_record' = [current_record EXCEPT !.millis = now - start',
                                                 !.score = @ + 1]
    /\ current' = current \cup {new}
    /\ UNCHANGED <<mounted, panicked, rows, columns, active, history, hovered,
                   local_storage, query, boot_history, overflow_checks,
                   sampling>>

\* The hit with start left at the instant Game was constructed.
hit_start_kept(row, col, now, new) ==
    /\ score < MaxScore
    /\ new \in Grid(rows, columns)
    /\ replacement_found(current, new)
    /\ clock' = now
    /\ start' = start
    /\ current_record' = [current_record EXCEPT !.millis = now - start',
                                                 !.score = @ + 1]
    /\ current' = (current \ {<<row, col>>}) \cup {new}
    /\ UNCHANGED <<mounted, panicked, rows, columns, active, history, hovered,
                   local_storage, query, boot_history, overflow_checks,
                   sampling>>

\* The branch of on_input taken when the position is active.  now is what
\* Instant::now() returns and new is where the replacement loop ends: the
\* loop leaves it only at a position that current does not contain.  The
\* score is capped at MaxScore.
hit(row, col, now, new) ==
    /\ score < MaxScore
    /\ new \in Grid(rows, columns)
    /\ replacement_found(current, new)
    /\ clock' = now
    /\ start' = IF score = 0 THEN now ELSE start
    /\ current_record' = [current_record EXCEPT !.millis = now - start',
                                                 !.score = @ + 1]
    /\ current' = (current \ {<<row, col>>}) \cup {new}
    /\ UNCHANGED <<mounted, panicked, rows, columns, active, history, hovered,
                   local_storage, query, boot_history, overflow_checks,
                   sampling>>

\* The instants the clock can show next, at most step later than the last.
Instants(step) == {t \in clock..(clock + step) : t <= MaxClock}

on_input(row, col, step) ==
    IF <<row, col>> \in current
    THEN \E now \in Instants(step), new \in Grid(rows, columns) :
            hit(row, col, now, new)
    ELSE game_over

\* The trigger with no cell hovered taken as one on the cell (0, 0).
on_trigger_default_cell(step) ==
    /\ mounted
    /\ ~panicked
    /\ IF hovered # NoCell
       THEN on_input(hovered[1], hovered[2], step)
       ELSE on_input(0, 0, step)

\* A pointer-down, touch-start or key-down event.
on_trigger(step) ==
    /\ mounted
    /\ ~panicked
    /\ IF hovered # NoCell
       THEN on_input(hovered[1], hovered[2], step)
       ELSE game_over

(***************************************************************************)
(* U32Input on:change of the input called name, with the text entered.     *)
(***************************************************************************)
Names == {"rows", "columns", "active"}

Change(name, text) ==
    /\ mounted
    /\ ~panicked
    /\ LET prior == CASE name = "rows" -> rows
                      [] name = "columns" -> columns
                      [] OTHER -> active
           v == IF parse(text) >= 0 THEN parse(text) ELSE prior
           r == IF name = "rows" THEN v ELSE rows
           c == IF name = "columns" THEN v ELSE columns
           a == IF name = "active" THEN v ELSE active
       IN  /\ rows' = r
           /\ columns' = c
           /\ active' = a
           /\ local_storage' = [local_storage EXCEPT ![name] = to_string(v)]
           /\ IF sample_panics(a, r, c)
              THEN /\ panicked' = TRUE
                   /\ current' = {}
                   /\ UNCHANGED query
              ELSE /\ panicked' = FALSE
                   /\ current' \in Samples(r, c, clamp_active(a, r, c))
                   /\ query' = [r |-> to_string(r), c |-> to_string(c),
                                a |-> to_string(a)]
    /\ UNCHANGED <<mounted, history, current_record, start, hovered, clock,
                   boot_history, overflow_checks, sampling>>

(***************************************************************************)
(* The Clear History button.                                               *)
(***************************************************************************)
\* The button emptying the whole map instead of one bucket.
ClearAllHistory ==
    /\ mounted
    /\ ~panicked
    /\ history' = EmptyMap
    /\ local_storage' = [local_storage EXCEPT !.history = save(history')]
    /\ UNCHANGED <<mounted, panicked, rows, columns, active, current,
                   current_record, start, hovered, clock, query, boot_history,
                   overflow_checks, sampling>>

ClearHistory ==
    /\ mounted
    /\ ~panicked
    /\ history' = WithBucket(history, config_key, <<>>)
    /\ local_storage' = [local_storage EXCEPT !.history = save(history')]
    /\ UNCHANGED <<mounted, panicked, rows, columns, active, current,
                   current_record, start, hovered, clock, query, boot_history,
                   overflow_checks, sampling>>

(***************************************************************************)
(* The two sampling loops of the handlers, one draw at a time.  sampling   *)
(* names the loop the handler is in; in the loop of on_input it holds the  *)
(* local new, the position drawn last.  No other handler runs before the   *)
(* one in a loop has returned.                                             *)
(***************************************************************************)
\* on:change up to the loop of update_current: the signal and the item are
\* set and current is cleared.  The handler panics as Change does, at the
\* subtraction or at the first draw.
update_current_begin(name, text) ==
    /\ mounted
    /\ ~panicked
    /\ sampling = Idle
    /\ LET prior == CASE name = "rows" -> rows
                      [] name = "columns" -> columns
                      [] OTHER -> active
           v == IF parse(text) >= 0 THEN parse(text) ELSE prior
           r == IF name = "rows" THEN v ELSE rows
           c == IF name = "columns" THEN v ELSE columns
           a == IF name = "active" THEN v ELSE active
       IN  /\ rows' = r
           /\ columns' = c
           /\ active' = a
           /\ local_storage' = [local_storage EXCEPT ![name] = to_string(v)]
           /\ current' = {}
           /\ IF sample_panics(a, r, c)
              THEN /\ panicked' = TRUE
                   /\ sampling' = sampling
              ELSE /\ panicked' = FALSE
                   /\ sampling' = [loop |-> "update_current", new |-> <<0, 0>>]
    /\ UNCHANGED <<mounted, history, current_record, start, hovered, clock,
                   query, boot_history, overflow_checks>>

\* One turn of while current.len() < active: new is drawn, and inserted
\* unless current contains it.
update_current_draw(new) ==
    /\ sampling.loop = "update_current"
    /\ Cardinality(current) < active_memo
    /\ new \in Grid(rows, columns)
    /\ current' = current \cup {new}
    /\ UNCHANGED <<mounted, panicked, rows, columns, active, history,
                   current_record, start, hovered, clock, local_storage, query,
                   boot_history, overflow_checks, sampling>>

\* The loop is left and the handler returns; the Effects then write the
\* query parameters.
update_current_end ==
    /\ sampling.loop = "update_current"
    /\ ~(Cardinality(current) < active_memo)
    /\ sampling' = Idle
    /\ query' = [r |-> to_string(rows), c |-> to_string(columns),
                 a |-> to_string(active)]
    /\ UNCHANGED <<mounted, panicked, rows, columns, active, current, history,
                   current_record, start, hovered, clock, local_storage,
                   boot_history, overflow_checks>>

\* A trigger on the hovered cell, which is active: on_input up to the first
\* draw of new.
replacement_begin(now, new) ==
    /\ mounted
    /\ ~panicked
    /\ sampling = Idle
    /\ hovered # NoCell
    /\ hovered \in current
    /\ score < MaxScore
    /\ new \in Grid(rows, columns)
    /\ clock' = now
    /\ start' = IF score = 0 THEN now ELSE start
    /\ current_record' = [current_record EXCEPT !.millis = now - start',
                                                 !.score = @ + 1]
    /\ sampling' = [loop |-> "on_input", new |-> new]
    /\ UNCHANGED <<mounted, panicked, rows, columns, active, current, history,
                   hovered, local_storage, query, boot_history,
                   overflow_checks>>

\* One turn of while current.contains(&new): new is drawn again.
replacement_draw(new) ==
    /\ sampling.loop = "on_input"
    /\ sampling.new \in current
    /\ new \in Grid(rows, columns)
    /\ sampling' = [sampling EXCEPT !.new = new]
    /\ UNCHANGED <<mounted, panicked, rows, columns, active, current, history,
                   current_record, start, hovered, clock, local_storage, query,
                   boot_history, overflow_checks>>

\* The loop is left: the cell hit is removed and new is inserted.
replacement_end ==
    /\ sampling.loop = "on_input"
    /\ sampling.new \notin current
    /\ current' = (current \ {hovered}) \cup {sampling.new}
    /\ sampling' = Idle
    /\ UNCHANGED <<mounted, panicked, rows, columns, active, history,
                   current_record, start, hovered, clock, local_storage, query,
                   boot_history, overflow_checks>>

(***************************************************************************)
(* The game: mounted on the smallest grid with one active cell or with     *)
(* MaxActive of them stored by an earlier session, no stored history,      *)
(* then driven by the pointer, the triggers, the inputs and the button.    *)
(* The inputs are given values their min attribute allows.                 *)
(***************************************************************************)
Unmounted ==
    /\ mounted = FALSE
    /\ panicked = FALSE
    /\ rows = 0
    /\ columns = 0
    /\ active = 0
    /\ current = {}
    /\ history = EmptyMap
    /\ current_record = Record(0, 0, 0, 0, 0, 0)
    /\ start = 0
    /\ hovered = NoCell
    /\ clock = 0
    /\ boot_history = NONE
    /\ sampling = Idle

\* The configuration an earlier session stored.
Stored(r, c, a) ==
    /\ local_storage = [rows |-> r, columns |-> c, active |-> a,
                        history |-> NONE]
    /\ query = [r |-> NONE, c |-> NONE, a |-> NONE]

Targets ==
    {<<kind, <<0, 0>>>> : kind \in {"none", "node", "other"}}
    \cup {<<"cell", cell>> : cell \in Grid(rows, columns)}

ValidTexts(name) ==
    CASE name = "rows" -> {to_string(n) : n \in 2..MaxRows}
      [] name = "columns" -> {to_string(n) : n \in 2..MaxColumns}
      [] OTHER -> {to_string(n) : n \in 1..MaxActive}

Init ==
    /\ Unmounted
    /\ overflow_checks = FALSE
    /\ \E a \in {1, MaxActive} : Stored(to_string(2), to_string(2), to_string(a))

Next ==
    \/ Mount
    \/ \E target \in Targets : Mouseover(target[1], target[2])
    \/ on_trigger(0) /\ TotalRecords(history') <= MaxRecords
    \/ \E name \in Names : \E text \in ValidTexts(name) : Change(name, text)
    \/ ClearHistory

Spec == Init /\ [][Next]_vars

(***************************************************************************)
(* The runs of the game on the grid it was mounted with: time passes       *)
(* between the hits, the history grows to MaxRunRecords records, and only  *)
(* the number of active cells is reconfigured.                             *)
(***************************************************************************)
RunTexts(name) ==
    CASE name = "rows" -> {to_string(2)}
      [] name = "columns" -> {to_string(2)}
      [] OTHER -> {to_string(n) : n \in 1..MaxActive}

InitRun ==
    /\ Unmounted
    /\ overflow_checks = FALSE
    /\ \E r \in RunTexts("rows"), c \in RunTexts("columns") :
          Stored(r, c, to_string(1))

NextRun ==
    \/ Mount
    \/ \E target \in Targets : Mouseover(target[1], target[2])
    \/ on_trigger(1) /\ TotalRecords(history') <= MaxRunRecords
    \/ \E name \in Names : \E text \in RunTexts(name) : Change(name, text)
    \/ ClearHistory

SpecRun == InitRun /\ [][NextRun]_vars

(***************************************************************************)
(* The game with any text entered into the inputs, under either build.     *)
(***************************************************************************)
RawTexts(name) == {<<>>, <<"x">>, <<"0">>, <<"1">>, <<"2">>}

InitRaw ==
    /\ Unmounted
    /\ overflow_checks \in BOOLEAN
    /\ Stored(to_string(2), to_string(2), to_string(1))

NextRaw ==
    \/ Mount
    \/ \E target \in Targets : Mouseover(target[1], target[2])
    \/ on_trigger(0) /\ TotalRecords(history') <= MaxRecords
    \/ \E name \in Names : \E text \in RawTexts(name) : Change(name, text)
    \/ ClearHistory

SpecRaw == InitRaw /\ [][NextRaw]_vars

(***************************************************************************)
(* Mounting on a stored history.  The stored texts are the well-formed     *)
(* version-1 texts of up to MaxBuckets buckets, and each of them with one  *)
(* character removed or replaced, or cut short.                            *)
(***************************************************************************)
StoreKeys == {<<2, 2, 1>>, <<2, 2, 2>>, <<2, 3, 1>>, <<3, 2, 1>>}

\* The records of a bucket, most recent first: <<position, score, millis>>.
StoreBuckets == {<<<<1, 2, 0>>>>, <<<<2, 3, 1>>, <<1, 2, 0>>>>}

KeyLess(j, k) ==
    \/ j[1] < k[1]
    \/ j[1] = k[1] /\ j[2] < k[2]
    \/ j[1] = k[1] /\ j[2] = k[2] /\ j[3] < k[3]

\* Sequences of <<key, bucket>> in ascending order of the keys.
StoreTrees ==
    UNION {{tree \in [1..n -> StoreKeys \X StoreBuckets] :
               \A i \in 1..(n - 1) : KeyLess(tree[i][1], tree[i + 1][1])}
           : n \in 0..MaxBuckets}

RECURSIVE RecordLines(_)
RecordLines(bucket) ==
    IF bucket = <<>> THEN <<>>
    ELSE to_string(Head(bucket)[1]) \o <<COMMA>> \o to_string(Head(bucket)[2])
         \o <<COMMA>> \o to_string(Head(bucket)[3]) \o <<NL>>
         \o RecordLines(Tail(bucket))

RECURSIVE TreeLines(_, _)
\* The rows header where the rows change, the columns header where the rows
\* or the columns change, the active header of every bucket, its records.
TreeLines(tree, i) ==
    IF i > Len(tree) THEN <<>>
    ELSE LET key == tree[i][1]
             rows_change == i = 1 \/ tree[i - 1][1][1] # key[1]
             columns_change == rows_change \/ tree[i - 1][1][2] # key[2]
         IN  (IF rows_change
              THEN <<TAB, TAB, TAB>> \o to_string(key[1]) \o <<NL>> ELSE <<>>)
             \o (IF columns_change
                 THEN <<TAB, TAB>> \o to_string(key[2]) \o <<NL>> ELSE <<>>)
             \o <<TAB>> \o to_string(key[3]) \o <<NL>>
             \o RecordLines(tree[i][2])
             \o TreeLines(tree, i + 1)

WellFormedText(tree) == <<"1", NL>> \o TreeLines(tree, 1)

WellFormedTexts == {WellFormedText(tree) : tree \in StoreTrees}

Alphabet == {TAB, NL, COMMA, "x", "7"}

Prefix(s, n) == SubSeq(s, 1, n)
Suffix(s, n) == SubSeq(s, n + 1, Len(s))

Damaged(s) ==
    {Prefix(s, i - 1) \o Suffix(s, i) : i \in 1..Len(s)}
    \cup {Prefix(s, i - 1) \o <<ch>> \o Suffix(s, i) :
             i \in 1..Len(s), ch \in Alphabet}
    \cup {Prefix(s, i) : i \in 0..Len(s)}

StoreTexts == WellFormedTexts \cup UNION {Damaged(s) : s \in WellFormedTexts}

InitStore ==
    /\ Unmounted
    /\ overflow_checks = FALSE
    /\ \E text \in StoreTexts \cup {NONE} :
          local_storage = [rows |-> to_string(2), columns |-> to_string(2),
                           active |-> to_string(1), history |-> text]
    /\ query = [r |-> NONE, c |-> NONE, a |-> NONE]

NextStore == Mount

SpecStore == InitStore /\ [][NextStore]_vars

(***************************************************************************)
(* Mounting on a stored configuration and query parameters, each of them   *)
(* absent, not a number, or a number: the queries hold values that differ  *)
(* from the stored ones and from the defaults.                             *)
(***************************************************************************)
ConfigQueries(name) ==
    {NONE, <<"x">>}
    \cup (CASE name = "r" -> {<<"2">>}
           [] name = "c" -> {<<"2">>}
           [] OTHER -> {<<"1">>})

ConfigItems(name) ==
    {NONE, <<"x">>, <<"0">>}
    \cup (CASE name = "rows" -> {<<"4">>}
           [] name = "columns" -> {<<"4">>}
           [] OTHER -> {<<"3">>})

InitConfig ==
    /\ Unmounted
    /\ overflow_checks \in BOOLEAN
    /\ \E r \in ConfigItems("rows"), c \in ConfigItems("columns"),
          a \in ConfigItems("active") :
          local_storage = [rows |-> r, columns |-> c, active |-> a,
                           history |-> NONE]
    /\ \E r \in ConfigQueries("r"), c \in ConfigQueries("c"),
          a \in ConfigQueries("a") :
          query = [r |-> r, c |-> c, a |-> a]

NextConfig == Mount

SpecConfig == InitConfig /\ [][NextConfig]_vars

(***************************************************************************)
(* The game with the sampling loops taken one draw at a time, on the       *)
(* smallest grid and with any number of active cells configured.  A        *)
(* handler that has been called runs until it returns, and random_range    *)
(* gives every position of the grid with a probability above 0: a draw of  *)
(* a free position, possible at every turn of a loop, is made in the end.  *)
(***************************************************************************)
NextSample ==
    \/ Mount
    \/ sampling = Idle /\ \E target \in Targets : Mouseover(target[1], target[2])
    \/ /\ sampling = Idle
       /\ hovered = NoCell \/ hovered \notin current
       /\ on_trigger(0)
       /\ TotalRecords(history') <= MaxRecords
    \/ sampling = Idle /\ ClearHistory
    \/ \E name \in Names : \E text \in RunTexts(name) :
          update_current_begin(name, text)
    \/ \E new \in Grid(rows, columns) : update_current_draw(new)
    \/ update_current_end
    \/ \E now \in Instants(0), new \in Grid(rows, columns) :
          replacement_begin(now, new)
    \/ \E new \in Grid(rows, columns) : replacement_draw(new)
    \/ replacement_end

FairDraws ==
    /\ WF_vars(\E new \in Grid(rows, columns) \ current :
                  update_current_draw(new))
    /\ WF_vars(update_current_end)
    /\ WF_vars(\E new \in Grid(rows, columns) \ current :
                  replacement_draw(new))
    /\ WF_vars(replacement_end)

SpecSample == InitRun /\ [][NextSample]_vars /\ FairDraws

(***************************************************************************)
(* The game with the rows reconfigured, to 2 or to MaxRows, between        *)
(* recorded runs, so that the history comes to hold buckets of different   *)
(* rows.  Time is frozen.                                                  *)
(***************************************************************************)
ReloadTexts(name) ==
    CASE name = "rows" -> {to_string(n) : n \in {2, MaxRows}}
      [] name = "columns" -> {to_string(2)}
      [] OTHER -> {to_string(1)}

InitReload ==
    /\ Unmounted
    /\ overflow_checks = FALSE
    /\ Stored(to_string(2), to_string(2), to_string(1))

NextReload ==
    \/ Mount
    \/ \E target \in Targets : Mouseover(target[1], target[2])
    \/ on_trigger(0) /\ TotalRecords(history') <= MaxRunRecords
    \/ \E name \in Names : \E text \in ReloadTexts(name) : Change(name, text)
    \/ ClearHistory

SpecReload == InitReload /\ [][NextReload]_vars

(***************************************************************************)
(* Steps, as the properties below name them.                               *)
(***************************************************************************)
Range(seq) == {seq[i] : i \in 1..Len(seq)}

\* The step is a trigger on the hovered cell, which is active.
HitStep ==
    /\ mounted
    /\ ~panicked
    /\ hovered # NoCell
    /\ hovered \in current
    /\ \E now \in 0..MaxClock, new \in Grid(rows, columns) :
          hit(hovered[1], hovered[2], now, new)

\* The step is a trigger with no cell hovered, or on a cell that is not
\* active.
MissStep ==
    /\ mounted
    /\ ~panicked
    /\ hovered = NoCell \/ hovered \notin current
    /\ game_over

\* The step is a change of the input called name to another valid value.
ReconfigureStep(name) ==
    /\ \E text \in ValidTexts(name) : Change(name, text)
    /\ <<rows', columns', active'>> # <<rows, columns, active>>

\* The step is a pointer-down, touch-start or key-down event, at any instant
\* the clock can show.
TriggerStep == on_trigger(MaxClock)

(***************************************************************************)
(* C1.  Whenever the game is mounted, the active set holds exactly         *)
(* min(active, rows * columns - 1) positions, each of them a position of   *)
(* the grid of the current rows and columns.                               *)
(***************************************************************************)
C1_ActiveSetSize ==
    mounted =>
        /\ Cardinality(current) = Min(active, rows * columns - 1)
        /\ \A p \in current : /\ 0 <= p[1] /\ p[1] < rows
                              /\ 0 <= p[2] /\ p[2] < columns

\* A run under way on a grid whose configured active exceeds what it can
\* hold, after an earlier run was recorded.
C1_Witness ==
    /\ mounted
    /\ active > rows * columns - 1
    /\ Cardinality(current) = rows * columns - 1
    /\ score > 0
    /\ history # EmptyMap

(***************************************************************************)
(* C8.  A hit on the active cell (r, c) replaces exactly that cell: the    *)
(* active set afterwards is the one before without (r, c) and with one     *)
(* position n of the grid that was not active before, so its size is       *)
(* unchanged and (r, c) is not active right after the hit.                 *)
(***************************************************************************)
C8_HitReplacesCell ==
    [][HitStep =>
          /\ \E n \in Grid(rows, columns) \ current :
                current' = (current \ {hovered}) \cup {n}
          /\ Cardinality(current') = Cardinality(current)
          /\ hovered \notin current'
          /\ current \ {hovered} \subseteq current']_vars

\* Right after a hit: the hovered cell has been vacated, the others stay.
C8_Witness ==
    /\ mounted
    /\ score > 0
    /\ hovered # NoCell
    /\ hovered \notin current
    /\ Cardinality(current) >= 2

(***************************************************************************)
(* C2.  On every miss a record is added to the history if and only if the  *)
(* score is greater than 1 at that moment; then exactly one record is put  *)
(* in front of one bucket, whose earlier records follow it in their order, *)
(* and it carries the score and the millis of the run; every other bucket  *)
(* is unchanged.                                                           *)
(***************************************************************************)
C2_MissRecords ==
    [][MissStep =>
          IF score > 1
          THEN \E key \in DOMAIN history' :
                  /\ Len(history'[key]) = Len(Bucket(history, key)) + 1
                  /\ Tail(history'[key]) = Bucket(history, key)
                  /\ Head(history'[key]).score = score
                  /\ Head(history'[key]).millis = current_record.millis
                  /\ \A k \in (DOMAIN history \cup DOMAIN history') \ {key} :
                        Bucket(history', k) = Bucket(history, k)
          ELSE history' = history]_vars

\* Right after a miss that put a record in front of an earlier one whose
\* millis differ.
C2_Witness ==
    /\ mounted
    /\ score = 0
    /\ \E key \in DOMAIN history :
          /\ Len(history[key]) >= 2
          /\ history[key][1].millis # history[key][2].millis

(***************************************************************************)
(* C3.  The score is 0 when the game is mounted, every hit adds exactly 1  *)
(* to it, every miss leaves it at 0 whether or not a record was recorded,  *)
(* and no step other than a miss lowers it.                                *)
(***************************************************************************)
C3_Score ==
    [][/\ (~mounted /\ mounted') => score' = 0
       /\ HitStep => score' = score + 1
       /\ MissStep => score' = 0
       /\ score' < score => MissStep]_vars

\* After a run of a single hit, made when the clock showed 1, was ended by a
\* miss that recorded nothing.
C3_Witness ==
    /\ mounted
    /\ score = 0
    /\ start = 1
    /\ history = EmptyMap

(***************************************************************************)
(* C9.  best_record is the current record or a record of the bucket of the *)
(* current configuration, and none of these has a higher score, nor the    *)
(* same score with lower millis; so its score is at least the score of the *)
(* run under way and at least every score in the bucket.                   *)
(***************************************************************************)
Candidates == {current_record} \cup Range(Bucket(history, config_key))

C9_BestRecord ==
    mounted =>
        /\ best_record \in Candidates
        /\ \A r \in Candidates :
              /\ r.score <= best_record.score
              /\ r.score = best_record.score => r.millis >= best_record.millis
        /\ best_record.score >= score

\* Two candidates share the best score with different millis, and another
\* one has a lower score.
C9_Witness ==
    /\ mounted
    /\ \E r1, r2 \in Candidates :
          /\ r1.score = best_record.score
          /\ r2.score = best_record.score
          /\ r1.millis # r2.millis
    /\ \E r \in Candidates : r.score < best_record.score

(***************************************************************************)
(* C4.  A change of rows, columns or active through the inputs clears the  *)
(* active set and samples it anew for the new configuration, sets the      *)
(* score to 0 and leaves every bucket of the history unchanged.            *)
(***************************************************************************)
C4_ReconfigureResets ==
    [][\A name \in Names :
          ReconfigureStep(name) =>
              /\ current' \in Samples(rows', columns',
                                      Min(active', rows' * columns' - 1))
              /\ score' = 0
              /\ history' = history]_vars

(***************************************************************************)
(* C7.  game_over stores a record under the key that best_record, the      *)
(* history table and Clear History use for the current configuration: the  *)
(* record of a run just recorded is the first of the bucket displayed.     *)
(***************************************************************************)
C7_RecordedWhereDisplayed ==
    [][(MissStep /\ score > 1) =>
          /\ Bucket(history', <<rows', columns', active'>>) # <<>>
          /\ Head(Bucket(history', <<rows', columns', active'>>)).score = score
          /\ Len(Bucket(history', <<rows', columns', active'>>))
                = Len(Bucket(history, config_key)) + 1]_vars

(***************************************************************************)
(* C10.  An invalid entry into the rows or the columns input, a text that  *)
(* is no number or a number that makes rows * columns less than 1, is      *)
(* rejected: rows and columns keep their values, and the game is never in  *)
(* a state with rows * columns < 1.                                        *)
(***************************************************************************)
InvalidDimension(name, text) ==
    \/ parse(text) < 0
    \/ name = "rows" /\ parse(text) * columns < 1
    \/ name = "columns" /\ rows * parse(text) < 1

C10_InvalidRejected ==
    [][/\ \A name \in {"rows", "columns"} : \A text \in RawTexts(name) :
             (Change(name, text) /\ InvalidDimension(name, text)) =>
                 /\ rows' = rows
                 /\ columns' = columns
       /\ mounted' => rows' * columns' >= 1]_vars

(***************************************************************************)
(* C5.  Mounting on a well-formed version-1 history text, with one bucket  *)
(* or with several that differ in rows, in columns or in active, stores    *)
(* the same text again: save(load(x)) = x.                                 *)
(***************************************************************************)
C5_RoundTrip ==
    (mounted /\ boot_history \in WellFormedTexts) =>
        local_storage.history = boot_history

(***************************************************************************)
(* C6.  Loading a stored text yields a map that is not empty only if the   *)
(* whole text was read: the text ends with a newline, its first line is    *)
(* the version 1, each further line is a header (tabs and a number) or a   *)
(* record (three numbers between two commas), and every record line is a   *)
(* record of the map.  Any other text yields the empty map.                *)
(***************************************************************************)
RECURSIVE LinesOf(_)
\* The lines of a text whose last character is a newline.
LinesOf(s) ==
    IF s = <<>> THEN <<>>
    ELSE LET n == CHOOSE i \in 1..Len(s) :
                     s[i] = NL /\ \A j \in 1..(i - 1) : s[j] # NL
         IN  <<SubSeq(s, 1, n - 1)>> \o LinesOf(SubSeq(s, n + 1, Len(s)))

IsNumber(s) ==
    /\ s # <<>>
    /\ \A i \in 1..Len(s) : s[i] \in Range(Digits) \/ (i = 1 /\ s[i] = PLUS)
    /\ s # <<PLUS>>

IsHeaderLine(line) ==
    \E n \in 1..Len(line) :
        /\ \A i \in 1..n : line[i] = TAB
        /\ IsNumber(SubSeq(line, n + 1, Len(line)))

IsRecordLine(line) ==
    \E i, j \in 1..Len(line) :
        /\ i < j
        /\ \A k \in 1..Len(line) : line[k] = COMMA <=> k \in {i, j}
        /\ IsNumber(SubSeq(line, 1, i - 1))
        /\ IsNumber(SubSeq(line, i + 1, j - 1))
        /\ IsNumber(SubSeq(line, j + 1, Len(line)))

WholeTextRead(s, h) ==
    /\ s # <<>>
    /\ s[Len(s)] = NL
    /\ LET lines == LinesOf(s)
       IN  /\ lines[1] = <<"1">>
           /\ \A i \in 2..Len(lines) :
                 IsHeaderLine(lines[i]) \/ IsRecordLine(lines[i])
           /\ Cardinality({i \in 2..Len(lines) : IsRecordLine(lines[i])})
                 = TotalRecords(h)

C6_LoadAllOrNothing ==
    (mounted /\ boot_history # NONE /\ history # EmptyMap) =>
        WholeTextRead(boot_history, history)

\* Mounted on a text that goes on, behind a part that alone loads records,
\* with what cannot be read: the map is empty and the text stored anew
\* holds the version line only.
C6_Witness ==
    /\ mounted
    /\ boot_history # NONE
    /\ \E n \in 1..(Len(boot_history) - 1) :
          load_text(Prefix(boot_history, n)) # EmptyMap
    /\ ~WholeTextRead(boot_history, load_text(boot_history))
    /\ history = EmptyMap
    /\ local_storage.history = <<"1", NL>>

(***************************************************************************)
(* C11.  Every trigger is resolved against the hovered cell: with a cell   *)
(* hovered that is active it is a hit on that cell (the score grows by 1,  *)
(* the cell is vacated, nothing is recorded); with a cell hovered that is  *)
(* not active, and with no cell hovered whatever the active set holds, it  *)
(* is a miss (the score is 0 afterwards, the active set stays, a record is *)
(* added exactly where the score was above 1).                             *)
(***************************************************************************)
C11_TriggerResolved ==
    [][TriggerStep =>
          IF hovered # NoCell /\ hovered \in current
          THEN /\ score' = score + 1
               /\ hovered \notin current'
               /\ history' = history
          ELSE /\ score' = 0
               /\ current' = current
               /\ (history' # history) <=> (score > 1)]_vars

\* After a miss made with no cell hovered while a cell was active, on the
\* larger grid: the run has been recorded there and no cell has been
\* hovered since.
C11_Witness ==
    /\ mounted
    /\ hovered = NoCell
    /\ current # {}
    /\ score = 0
    /\ rows = MaxRows
    /\ Bucket(history, game_over_key) # <<>>

(***************************************************************************)
(* C12.  Clear History empties the bucket of the current configuration     *)
(* (rows, columns, active) and nothing else: every other bucket keeps its  *)
(* records in their order, and the score, the current record and the       *)
(* active set are unchanged.                                               *)
(***************************************************************************)
C12_ClearOnlyCurrent ==
    [][ClearHistory =>
          /\ Bucket(history', config_key) = <<>>
          /\ \A key \in (DOMAIN history \cup DOMAIN history') \ {config_key} :
                Bucket(history', key) = Bucket(history, key)
          /\ current_record' = current_record
          /\ current' = current
          /\ <<rows', columns', active'>> = <<rows, columns, active>>]_vars

\* After a Clear History: the last run ended by a miss had taken time and at
\* least two hits, so it was recorded, and its record is gone, while the
\* record of another bucket is still there.
C12_Witness ==
    /\ mounted
    /\ score = 0
    /\ current_record.millis > 0
    /\ Bucket(history, config_key) = <<>>
    /\ history # EmptyMap
    /\ \A key \in DOMAIN history : \A i \in 1..Len(history[key]) :
          history[key][i].millis = 0
    /\ local_storage.history = save(history)

(***************************************************************************)
(* C13.  When the page is loaded, each of rows, columns and active is the  *)
(* number in its query parameter (r, c, a) if that is present and parses,  *)
(* else the number in its stored item if that is present and parses, else  *)
(* its default (3, 3, 2), each on its own; and loading fails only where a  *)
(* text that parses gave rows or columns the value 0, never because a      *)
(* stored item is absent or does not parse.                                *)
(***************************************************************************)
Parsable(text) == text # NONE /\ IsNumber(text)

Resolved(q, item, default) ==
    IF Parsable(q) THEN DigitsValue(IF q[1] = PLUS THEN Tail(q) ELSE q)
    ELSE IF Parsable(item)
         THEN DigitsValue(IF item[1] = PLUS THEN Tail(item) ELSE item)
         ELSE default

C13_ConfigResolved ==
    [][(~mounted /\ ~panicked /\ (mounted' \/ panicked')) =>
          /\ rows' = Resolved(query.r, local_storage.rows, 3)
          /\ columns' = Resolved(query.c, local_storage.columns, 3)
          /\ active' = Resolved(query.a, local_storage.active, 2)
          /\ panicked' =>
                \/ rows' = 0 /\ (Parsable(query.r) \/ Parsable(local_storage.rows))
                \/ columns' = 0 /\ (Parsable(query.c)
                                      \/ Parsable(local_storage.columns))]_vars

\* Loaded with rows from the default (the stored item is no number), columns
\* from the stored item and active from the query parameter, which differs
\* from the stored item.
C13_Witness ==
    /\ mounted
    /\ local_storage.rows = <<"x">>
    /\ rows = 3
    /\ local_storage.columns = <<"4">>
    /\ columns = 4
    /\ local_storage.active = <<"3">>
    /\ active = 1

(***************************************************************************)
(* C14.  The start instant is taken at the hit that takes the score from 0 *)
(* to 1, in every run, and at no other step; the clock is read at the hits *)
(* only.  So millis is 0 at the first hit of a run, does not decrease over *)
(* the hits of a run, and the millis of a record is the clock at the last  *)
(* hit of its run less the clock at the first hit of that run.             *)
(***************************************************************************)
C14_Millis ==
    [][/\ HitStep =>
             /\ start' = (IF score = 0 THEN clock' ELSE start)
             /\ current_record'.millis = clock' - start'
             /\ score = 0 => current_record'.millis = 0
             /\ score > 0 => current_record'.millis >= current_record.millis
       /\ (MissStep /\ score > 1) =>
             Head(Bucket(history', game_over_key)).millis = clock - start
       /\ (mounted /\ start' # start) => (HitStep /\ score = 0)
       /\ (mounted /\ clock' # clock) => HitStep]_vars

\* A run that took time was recorded, and then a run whose hits were all
\* made at one later instant: its record, in front, has the millis 0.
C14_Witness ==
    /\ mounted
    /\ clock > 0
    /\ start = clock
    /\ \E key \in DOMAIN history :
          /\ Len(history[key]) >= 2
          /\ history[key][1].millis = 0
          /\ history[key][2].millis > 0

(***************************************************************************)
(* C15.  Rejection sampling always has a free cell to find: on a grid with *)
(* rows >= 2 and columns >= 2 the active set holds fewer than rows *       *)
(* columns positions in every state, so also where the resampling loop or  *)
(* the replacement loop after a hit starts and at each of their turns; and *)
(* with draws that are fair, every loop that was entered is left.          *)
(***************************************************************************)
C15_SamplingTerminates ==
    /\ []((mounted /\ rows >= 2 /\ columns >= 2) =>
             Cardinality(current) < rows * columns)
    /\ (sampling.loop = "update_current") ~> (sampling = Idle)
    /\ (sampling.loop = "on_input") ~> (sampling = Idle)

\* In the replacement loop, with a single cell free and a position drawn
\* that is taken: the loop has to draw again.
C15_Witness ==
    /\ mounted
    /\ sampling.loop = "on_input"
    /\ sampling.new \in current
    /\ active > rows * columns - 1
    /\ Cardinality(current) = rows * columns - 1

(***************************************************************************)
(* C16.  A record gets the position (number of records in its bucket) + 1  *)
(* when it is put in front; so in a session that started with an empty     *)
(* history, whatever hits, misses, changes of the configuration and Clear  *)
(* History it saw, the positions in every bucket are n, n - 1, ..., 1 from *)
(* the front to the back, n being the length of the bucket, and pairwise   *)
(* distinct.                                                               *)
(***************************************************************************)
C16_Positions ==
    (mounted /\ boot_history = NONE) =>
        \A key \in DOMAIN history :
            /\ \A i \in 1..Len(history[key]) :
                  history[key][i].position = Len(history[key]) - i + 1
            /\ \A i, j \in 1..Len(history[key]) :
                  i # j => history[key][i].position # history[key][j].position

\* Two buckets hold records, as after runs under two configurations: each
\* of them counts its positions from 1.
C16_Witness ==
    /\ mounted
    /\ boot_history = NONE
    /\ Cardinality(DOMAIN history) >= 2
    /\ \A key \in DOMAIN history : history[key][Len(history[key])].position = 1

(***************************************************************************)
(* C17.  The history survives a reload: after every change of the history  *)
(* the stored item is the text of the map in memory, and loading that text *)
(* at the next start gives every key (rows, columns, active) the records   *)
(* the bucket in memory holds, in their order, also where buckets differ   *)
(* in rows or in columns.                                                  *)
(***************************************************************************)
C17_SurvivesReload ==
    mounted =>
        /\ local_storage.history = save(history)
        /\ \A key \in DOMAIN history \cup DOMAIN load(local_storage.history) :
              Bucket(load(local_storage.history), key) = Bucket(history, key)

(***************************************************************************)
(* C18.  Two triggers in a row, with no change of the hovered cell and no  *)
(* reconfiguration between them, are never both hits: a hit leaves the     *)
(* hovered cell hovered and not active, a cell that is hovered and not     *)
(* active becomes active only by a change of the configuration inputs,     *)
(* and a trigger on it is a miss, which leaves the score at 0 and the      *)
(* active set as it is.                                                    *)
(***************************************************************************)
C18_NoDoubleHit ==
    [][/\ HitStep => (hovered' = hovered /\ hovered' \notin current')
       /\ (/\ mounted
           /\ hovered # NoCell
           /\ hovered \notin current
           /\ hovered' = hovered
           /\ hovered' \in current') =>
             \E name \in Names : \E text \in ReloadTexts(name) :
                Change(name, text)
       /\ (TriggerStep /\ hovered # NoCell /\ hovered \notin current) =>
             (~HitStep /\ score' = 0 /\ current' = current)]_vars

\* A run of MaxScore hits was ended and recorded by a miss on a cell of the
\* grid that is still hovered and not active, as the cell hit last is.
C18_Witness ==
    /\ mounted
    /\ hovered \in Grid(rows, columns) \ current
    /\ score = 0
    /\ \E key \in DOMAIN history : Head(history[key]).score = MaxScore

(***************************************************************************)
(* C19.  A miss changes neither the active set nor rows, columns and       *)
(* active; and a miss at a score of 0 or 1 leaves the history, with every  *)
(* bucket, and the stored items as they are: all it does is set the score  *)
(* to 0.                                                                   *)
(***************************************************************************)
C19_MissFrame ==
    [][MissStep =>
          /\ current' = current
          /\ <<rows', columns', active'>> = <<rows, columns, active>>
          /\ score <= 1 =>
                /\ history' = history
                /\ local_storage' = local_storage
                /\ current_record' = [current_record EXCEPT !.score = 0]
                /\ <<start', hovered', clock'>> = <<start, hovered, clock>>]_vars

\* After a run of a single hit, made at a later instant than the runs the
\* history holds, was ended by a miss: nothing was added to the history.
C19_Witness ==
    /\ mounted
    /\ score = 0
    /\ start > 0
    /\ current_record.millis = 0
    /\ history # EmptyMap
    /\ \A key \in DOMAIN history : \A i \in 1..Len(history[key]) :
          history[key][i].millis > 0

====
